---------------------------- MODULE Spec2Model ----------------------------
(* A model of crypto_bot.py: the three-tier price resolution of get_price   *)
(* (Binance -> OKX -> CoinGecko) over fetch_json, and the per-user rolling  *)
(* conversation history kept by chat_with_deepseek and cmd_clear.           *)
(*                                                                          *)
(* Python values are modelled as records tagged by a "kind" (adapter        *)
(* results) or a "shape" (JSON bodies); None is the record PyNone. Prices   *)
(* travel as the decimal strings the exchanges send and are converted by    *)
(* float_; a conversion that fails raises, as float() does.                 *)
EXTENDS Integers, Sequences, FiniteSets, TLC

VARIABLES
    \* ---- one get_price invocation (its locals) ----
    pc,               \* position of the coroutine
    ids,              \* the parsed identifier list
    binance_results,  \* what gather returned for the Binance fan-out
    need_okx,         \* identifiers Binance did not resolve
    okx_results,      \* what gather returned for the OKX fan-out
    need_cg,          \* identifiers OKX did not resolve either
    cg_data,          \* what _price_from_coingecko returned
    result,           \* coin id -> quote
    ret,              \* the value returned to the caller
    started,          \* the adapter calls made so far, in the order made
    \* ---- the conversation manager ----
    user_conversations, \* user id -> list of {role, content}
    chat_pc,          \* per user: position of the chat_with_deepseek call
    msg_no,           \* per user: number of exchanges started so far
    sent,             \* the payload of the most recent POST to the model
    chat_ret,         \* per user: the reply string of the last completed call
    appended,         \* per user: every entry appended since the last clear
    failures,         \* number of model calls that failed so far
    chat_outcome,     \* per user: how the POST of the last completed call ended
    \* ---- one fetch_json call ----
    fetched,          \* the response of the GET and what fetch_json returned
    \* ---- one price request of a user: /price or the refresh button ----
    handler,          \* the handler awaiting get_price, and where it stands
    requested,        \* coin_ids.split(","), the pieces of the request
    outbox,           \* the messages the handler sent or edited, in order
    \* ---- two chat_with_deepseek calls of one user, in flight at once ----
    calls,            \* per call: its position and its locals
    \* ---- one handle_message call and the exchange it ends in ----
    hm                \* its position and its locals

price_vars == <<pc, ids, binance_results, need_okx, okx_results, need_cg,
                cg_data, result, ret, started>>
chat_vars  == <<user_conversations, chat_pc, msg_no, sent, chat_ret, appended,
                failures, chat_outcome>>
fetch_vars == <<fetched>>
handler_vars == <<handler, requested, outbox>>
call_vars  == <<calls>>
message_vars == <<hm>>
vars       == <<price_vars, chat_vars, fetch_vars, handler_vars, call_vars, message_vars>>

-----------------------------------------------------------------------------
(* Bounds of the model.                                                     *)

\* the longest identifier list passed to get_price
MaxIds == 2
\* the number of exchanges a user starts
MaxExchanges == 12
\* the number of model calls that fail (time out, answer non-200, break)
MaxFailures == 2
\* the number of calls the two interleaved calls of one user start in all
MaxCalls == 3
\* the number of free-text messages handle_message is called with
MaxMessages == 2

-----------------------------------------------------------------------------
(* Identifiers and the static mapping tables.                               *)

\* "monero" stands for any CoinGecko id the two exchange tables do not list.
Coins == {"bitcoin", "ethereum", "monero"}

COINGECKO_TO_BINANCE == [c \in {"bitcoin", "ethereum"} |->
                            IF c = "bitcoin" THEN "BTCUSDT" ELSE "ETHUSDT"]

COINGECKO_TO_OKX == [c \in {"bitcoin", "ethereum"} |->
                        IF c = "bitcoin" THEN "BTC-USDT" ELSE "ETH-USDT"]

-----------------------------------------------------------------------------
(* Python values.                                                           *)

\* None, and JSON null once parsed
PyNone == [shape |-> "null"]

\* the decimal strings an exchange may put in a numeric field
NumStrs == {"1", "0", "abc"}

IsNumeric(s) == s \in {"1", "0"}

\* float(s) for a numeric string
float_(s) == CASE s = "1" -> 1 [] s = "0" -> 0

\* truthiness of a JSON value as `if data` / `not data` sees it
Truthy(v) == v.shape \notin {"null", "empty"}

\* bodies every endpoint may answer with, whatever it was asked
JunkBodies == {[shape |-> "unparsable"], PyNone, [shape |-> "empty"],
               [shape |-> "list"], [shape |-> "scalar"]}

BinanceBodies == JunkBodies \cup
    {[shape |-> "dict", lastPrice |-> s] : s \in NumStrs \cup {"absent"}}

OkxBodies == JunkBodies \cup
    {[shape |-> "dict", code |-> c, data |-> d, last |-> s] :
        c \in {"0", "51001"}, d \in {"absent", "empty", "row"},
        s \in NumStrs \cup {"absent"}}

\* one value of the CoinGecko simple/price object
CgEntries == {[kind |-> "dict", has_usd |-> TRUE,  usd |-> 1, source |-> "?"],
              [kind |-> "dict", has_usd |-> TRUE,  usd |-> 0, source |-> "?"],
              [kind |-> "dict", has_usd |-> FALSE, usd |-> 0, source |-> "?"],
              [kind |-> "scalar", has_usd |-> FALSE, usd |-> 0, source |-> "?"]}

CgObjects(S) == UNION {[D -> CgEntries] : D \in SUBSET S}

CgBodies(S) == JunkBodies \cup
    {[shape |-> "dict", entries |-> e] : e \in CgObjects(S) \ {<<>>}}

\* what one GET can end in
Responses(bodies) ==
    {[kind |-> "timeout", status |-> 0, body |-> PyNone],
     [kind |-> "neterr",  status |-> 0, body |-> PyNone],
     [kind |-> "http",    status |-> 429, body |-> PyNone],
     [kind |-> "http",    status |-> 500, body |-> PyNone]}
    \cup {[kind |-> "http", status |-> 200, body |-> b] : b \in bodies}

-----------------------------------------------------------------------------
(* fetch_json and the three adapters.                                       *)

\* the 200 branch alone, without the status chain and the except clauses:
\* any body is handed to the parser and what the parser does reaches the caller
fetch_json_Unguarded(resp) ==
    IF resp.kind = "http" THEN resp.body ELSE PyNone

\* the parsed JSON on status 200, None on everything else; resp.json()
\* raising on an unparsable body is caught by `except Exception`
fetch_json(resp) ==
    IF resp.kind = "http" /\ resp.status = 200 /\ resp.body.shape # "unparsable"
    THEN resp.body
    ELSE PyNone

\* results of an adapter coroutine as gather(return_exceptions=True) hands
\* them over: None, an exception object, or the quote dict
AdapterNone == [kind |-> "none", has_usd |-> FALSE, usd |-> 0, source |-> "?"]
Raised      == [kind |-> "exc",  has_usd |-> FALSE, usd |-> 0, source |-> "?"]
Quote(p, src) == [kind |-> "dict", has_usd |-> TRUE, usd |-> p, source |-> src]

_price_from_binance(coin_id, resp) ==
    IF coin_id \notin DOMAIN COINGECKO_TO_BINANCE THEN AdapterNone
    ELSE LET data == fetch_json(resp) IN
         IF ~Truthy(data) THEN AdapterNone
         ELSE IF data.shape # "dict" THEN Raised          \* data.get: AttributeError
         ELSE IF data.lastPrice = "absent" THEN Quote(0, "Binance")  \* float(0)
         ELSE IF ~IsNumeric(data.lastPrice) THEN Raised   \* float(): ValueError
         ELSE Quote(float_(data.lastPrice), "Binance")

_price_from_okx(coin_id, resp) ==
    IF coin_id \notin DOMAIN COINGECKO_TO_OKX THEN AdapterNone
    ELSE LET data == fetch_json(resp) IN
         IF ~Truthy(data) THEN AdapterNone
         ELSE IF data.shape # "dict" THEN Raised          \* data.get: AttributeError
         ELSE IF data.code # "0" THEN AdapterNone
         ELSE IF data.data # "row" THEN Raised            \* KeyError / IndexError
         ELSE IF data.last = "absent" THEN Quote(0, "OKX")
         ELSE IF ~IsNumeric(data.last) THEN Raised        \* float(): ValueError
         ELSE Quote(float_(data.last), "OKX")

_price_from_coingecko(resp) == fetch_json(resp)

-----------------------------------------------------------------------------
(* Helpers of get_price.                                                    *)

\* isinstance(r, dict) and r.get("usd")
Resolves(r) == r.kind = "dict" /\ r.has_usd /\ r.usd # 0

Pending == [kind |-> "pending", has_usd |-> FALSE, usd |-> 0, source |-> "?"]

\* [c.strip() for c in coin_ids.split(",") if c.strip()]
RECURSIVE ParseIds(_)
ParseIds(toks) ==
    IF toks = <<>> THEN <<>>
    ELSE IF Head(toks) = "" THEN ParseIds(Tail(toks))
    ELSE <<Head(toks)>> \o ParseIds(Tail(toks))

\* the else-branch of a zip loop: the identifiers whose result does not resolve
RECURSIVE Unresolved(_, _)
Unresolved(cids, rs) ==
    IF cids = <<>> THEN <<>>
    ELSE (IF Resolves(Head(rs)) THEN <<>> ELSE <<Head(cids)>>)
         \o Unresolved(Tail(cids), Tail(rs))

\* the then-branch of a zip loop: result[cid] = r, in list order (a later
\* position of the same identifier overwrites an earlier one)
RECURSIVE Store(_, _, _)
Store(res, cids, rs) ==
    IF cids = <<>> THEN res
    ELSE LET c == Head(cids)
             r == Head(rs)
             nxt == IF Resolves(r)
                    THEN [k \in DOMAIN res \cup {c} |-> IF k = c THEN r ELSE res[k]]
                    ELSE res
         IN Store(nxt, Tail(cids), Tail(rs))

\* gather without return_exceptions: the first exception leaves the await
GatherRaises_Propagates(rs) == \E i \in DOMAIN rs : rs[i].kind = "exc"

\* asyncio.gather(*tasks, return_exceptions=True): every task's outcome,
\* exceptions included, comes back as a value
GatherRaises(rs) == FALSE

\* `cid in cg_data` and the subscripting that follows, per shape of the payload
CgHas(data, cid) == data.shape = "dict" /\ cid \in DOMAIN data.entries

\* the CoinGecko loop up to the first identifier that raises: <<result, raised>>
RECURSIVE CgMerge(_, _, _)
CgMerge(res, data, cids) ==
    IF data.shape = "scalar" /\ cids # <<>> THEN <<res, TRUE>>   \* `in`: TypeError
    ELSE IF cids = <<>> THEN <<res, FALSE>>
    ELSE LET c == Head(cids) IN
         IF ~CgHas(data, c) THEN CgMerge(res, data, Tail(cids))
         ELSE IF data.entries[c].kind # "dict" THEN <<res, TRUE>>  \* item assignment: TypeError
         ELSE CgMerge([k \in DOMAIN res \cup {c} |->
                          IF k = c THEN [data.entries[c] EXCEPT !.source = "CoinGecko"]
                          ELSE res[k]],
                      data, Tail(cids))

\* return result if result else None
ReturnValue(res) == IF DOMAIN res = {} THEN [kind |-> "None", quotes |-> <<>>]
                    ELSE [kind |-> "dict", quotes |-> res]

-----------------------------------------------------------------------------
(* The module-level state and the start of the model.                       *)

NoResults == <<>>
EmptyResult == <<>>
NotReturned == [kind |-> "unset", quotes |-> <<>>]
NothingSent == [user |-> 0, messages |-> <<>>, log |-> <<>>]

Users == {1, 2}

\* the two calls, neither started
Slots == {"A", "B"}

NoCalls == [c \in Slots |-> [at |-> "idle", n |-> 0, payload |-> <<>>, ret |-> "none"]]

\* no handle_message call so far
NoMessage == [at |-> "idle", n |-> 0, text |-> {}, targets |-> <<>>, ctx_parts |-> <<>>]

NoFetch == [resp |-> [kind |-> "none", status |-> 0, body |-> PyNone], out |-> PyNone]

Init ==
    /\ pc = "idle"
    /\ ids = <<>>
    /\ binance_results = NoResults
    /\ need_okx = <<>>
    /\ okx_results = NoResults
    /\ need_cg = <<>>
    /\ cg_data = PyNone
    /\ result = EmptyResult
    /\ ret = NotReturned
    /\ started = <<>>
    /\ user_conversations = <<>>          \* user_conversations = {}
    /\ chat_pc = [u \in Users |-> "idle"]
    /\ msg_no = [u \in Users |-> 0]
    /\ sent = NothingSent
    /\ chat_ret = [u \in Users |-> "none"]
    /\ appended = [u \in Users |-> <<>>]
    /\ failures = 0
    /\ chat_outcome = [u \in Users |-> "none"]
    /\ fetched = NoFetch
    /\ handler = [name |-> "none", at |-> "idle"]
    /\ requested = <<>>
    /\ outbox = <<>>
    /\ calls = NoCalls
    /\ hm = NoMessage

-----------------------------------------------------------------------------
(* get_price, one action per resumption of the coroutine.                   *)

\* the comma-separated argument, as the list of its pieces ("" is an empty
\* or blank piece); cmd_price and handle_callback pass the user's words
\* as they came, repeats included
Tokens == Coins \cup {""}

TokenLists == UNION {[1..n -> Tokens] : n \in 0..MaxIds}

AllPending(n) == [i \in 1..n |-> Pending]

\* the fan-out handed over as soon as one task is done, the others running
Settled_FirstCompleted(rs) == \E i \in DOMAIN rs : rs[i] # Pending

\* await asyncio.gather(...) returns when every task of the fan-out is done
Settled(rs) == \A i \in DOMAIN rs : rs[i] # Pending

Range(s) == {s[i] : i \in DOMAIN s}

\* one adapter coroutine per identifier (lines 195, 211); the adapter sends a
\* GET only for an identifier its table maps (lines 122-124, 149-151)
AdapterCalls(tier, cids) ==
    [i \in 1..Len(cids) |->
        [tier |-> tier, cids |-> <<cids[i]>>,
         get |-> cids[i] \in (IF tier = "Binance" THEN DOMAIN COINGECKO_TO_BINANCE
                              ELSE DOMAIN COINGECKO_TO_OKX)]]

\* line 222: one call for the whole list, which always sends its GET
BatchCall(cids) == [tier |-> "CoinGecko", cids |-> cids, get |-> TRUE]

\* lines 220-230 once need_cg is empty: nothing is awaited before the return
ReturnNow(res) ==
    /\ ret' = ReturnValue(res)
    /\ pc' = "done"

\* entry up to the first await: parse, create the Binance tasks, gather
get_price(toks) ==
    /\ pc = "idle"
    /\ ids' = ParseIds(toks)
    /\ binance_results' = AllPending(Len(ParseIds(toks)))
    /\ pc' = "binance"
    /\ result' = EmptyResult
    /\ started' = AdapterCalls("Binance", ParseIds(toks))
    /\ UNCHANGED <<need_okx, okx_results, need_cg, cg_data, ret, chat_vars, fetch_vars, call_vars, message_vars>>

\* get_price called on its own, with any argument
GetPriceCall ==
    /\ \E toks \in TokenLists : get_price(toks)
    /\ UNCHANGED handler_vars

\* one Binance task finishes; tasks of a fan-out finish in any order
BinanceSettle ==
    /\ pc = "binance"
    /\ \E i \in DOMAIN binance_results :
         /\ binance_results[i] = Pending
         /\ \E resp \in Responses(BinanceBodies) :
              binance_results' =
                  [binance_results EXCEPT ![i] = _price_from_binance(ids[i], resp)]
    /\ UNCHANGED <<pc, ids, need_okx, okx_results, need_cg, cg_data, result, ret, started, chat_vars, fetch_vars, handler_vars, call_vars, message_vars>>

\* gather returns: the first zip loop, then the OKX tasks or the return
BinanceCollect ==
    /\ pc = "binance"
    /\ Settled(binance_results)
    /\ IF GatherRaises(binance_results)
       THEN /\ pc' = "raised"
            /\ UNCHANGED <<need_okx, okx_results, result, ret, started>>
       ELSE LET res  == Store(result, ids, binance_results)
                need == Unresolved(ids, binance_results)
            IN /\ result' = res
               /\ need_okx' = need
               /\ okx_results' = AllPending(Len(need))
               /\ started' = started \o AdapterCalls("OKX", need)
               /\ IF need # <<>>
                  THEN pc' = "okx" /\ UNCHANGED ret
                  ELSE ReturnNow(res)
    /\ UNCHANGED <<ids, binance_results, need_cg, cg_data, chat_vars, fetch_vars, handler_vars, call_vars, message_vars>>

OkxSettle ==
    /\ pc = "okx"
    /\ \E i \in DOMAIN okx_results :
         /\ okx_results[i] = Pending
         /\ \E resp \in Responses(OkxBodies) :
              okx_results' =
                  [okx_results EXCEPT ![i] = _price_from_okx(need_okx[i], resp)]
    /\ UNCHANGED <<pc, ids, binance_results, need_okx, need_cg, cg_data, result, ret, started, chat_vars, fetch_vars, handler_vars, call_vars, message_vars>>

\* gather returns: the second zip loop, then the CoinGecko call or the return
OkxCollect ==
    /\ pc = "okx"
    /\ Settled(okx_results)
    /\ IF GatherRaises(okx_results)
       THEN /\ pc' = "raised"
            /\ UNCHANGED <<need_cg, result, ret, started>>
       ELSE LET res  == Store(result, need_okx, okx_results)
                need == Unresolved(need_okx, okx_results)
            IN /\ result' = res
               /\ need_cg' = need
               /\ started' = IF need # <<>> THEN Append(started, BatchCall(need))
                              ELSE started
               /\ IF need # <<>>
                  THEN pc' = "coingecko" /\ UNCHANGED ret
                  ELSE ReturnNow(res)
    /\ UNCHANGED <<ids, binance_results, need_okx, okx_results, cg_data, chat_vars, fetch_vars, handler_vars, call_vars, message_vars>>

\* the one batched CoinGecko call answers; merge and return, or raise
CoingeckoSettle ==
    /\ pc = "coingecko"
    /\ \E resp \in Responses(CgBodies(Range(need_cg))) :
         LET data == _price_from_coingecko(resp)
             m    == IF Truthy(data) THEN CgMerge(result, data, need_cg)
                     ELSE <<result, FALSE>>
         IN /\ cg_data' = data
            /\ result' = m[1]
            /\ IF m[2]
               THEN pc' = "raised" /\ UNCHANGED ret
               ELSE ReturnNow(m[1])
    /\ UNCHANGED <<ids, binance_results, need_okx, okx_results, need_cg, started, chat_vars, fetch_vars, handler_vars, call_vars, message_vars>>

NextPrice ==
    \/ GetPriceCall
    \/ BinanceSettle
    \/ BinanceCollect
    \/ OkxSettle
    \/ OkxCollect
    \/ CoingeckoSettle

SpecPrice == Init /\ [][NextPrice]_vars

\* every GET ends (a response, an error, or the ClientTimeout of line 101),
\* and the event loop resumes a coroutine whose await is done
SpecPriceLive ==
    /\ Init /\ [][NextPrice]_vars
    /\ WF_vars(BinanceSettle) /\ WF_vars(BinanceCollect)
    /\ WF_vars(OkxSettle) /\ WF_vars(OkxCollect)
    /\ WF_vars(CoingeckoSettle)

-----------------------------------------------------------------------------
(* The two handlers of a price request: cmd_price and the rprice_ branch of *)
(* handle_callback. Each awaits one get_price invocation.                   *)

\* one reply_text / edit_text / edit_message_text
Message(op, text, blocks) == [op |-> op, text |-> text, blocks |-> blocks]

\* lines 428-436: the usage reply, or the placeholder and the call
cmd_price ==
    /\ handler.name = "none"
    /\ \E args \in TokenLists :
         /\ requested' = args
         /\ IF args = <<>>
            THEN /\ outbox' = <<Message("send", "usage", 0)>>
                 /\ handler' = [name |-> "cmd_price", at |-> "returned"]
                 /\ UNCHANGED <<price_vars, chat_vars, fetch_vars, call_vars, message_vars>>
            ELSE /\ outbox' = <<Message("send", "wait", 0)>>
                 /\ handler' = [name |-> "cmd_price", at |-> "await"]
                 /\ get_price(args)

\* lines 437-442: get_price returned
cmd_price_resume ==
    /\ handler = [name |-> "cmd_price", at |-> "await"]
    /\ pc = "done"
    /\ outbox' = Append(outbox,
                     IF ret.kind = "None" THEN Message("edit", "error", 0)
                     ELSE Message("edit", "prices", Len(requested)))
    /\ handler' = [handler EXCEPT !.at = "returned"]
    /\ UNCHANGED <<requested, price_vars, chat_vars, fetch_vars, call_vars, message_vars>>

\* lines 658-660: the button of an earlier price message is pressed; its
\* data is the coin_ids of that message, which named at least one identifier
handle_callback ==
    /\ handler.name = "none"
    /\ \E pieces \in {t \in TokenLists : ParseIds(t) # <<>>} :
         /\ requested' = pieces
         /\ get_price(pieces)
    /\ outbox' = <<>>
    /\ handler' = [name |-> "handle_callback", at |-> "await"]

\* lines 661-665: get_price returned
handle_callback_resume ==
    /\ handler = [name |-> "handle_callback", at |-> "await"]
    /\ pc = "done"
    /\ outbox' = IF ret.kind = "dict"
                 THEN Append(outbox, Message("edit", "prices", Len(requested)))
                 ELSE outbox
    /\ handler' = [handler EXCEPT !.at = "returned"]
    /\ UNCHANGED <<requested, price_vars, chat_vars, fetch_vars, call_vars, message_vars>>

\* get_price raised: the exception leaves the handler at its await
HandlerRaise ==
    /\ handler.at = "await"
    /\ pc = "raised"
    /\ handler' = [handler EXCEPT !.at = "raised"]
    /\ UNCHANGED <<requested, outbox, price_vars, chat_vars, fetch_vars, call_vars, message_vars>>

NextHandlers ==
    \/ cmd_price
    \/ handle_callback
    \/ BinanceSettle
    \/ BinanceCollect
    \/ OkxSettle
    \/ OkxCollect
    \/ CoingeckoSettle
    \/ cmd_price_resume
    \/ handle_callback_resume
    \/ HandlerRaise

SpecHandlers == Init /\ [][NextHandlers]_vars

-----------------------------------------------------------------------------
(* fetch_json on its own, over everything one GET can end in.               *)

AllBodies == BinanceBodies \cup OkxBodies \cup CgBodies(Coins)

\* the statuses fetch_json tells apart, and two of the others
Statuses == {200, 429, 404, 500}

\* a server may send any body with any status
FetchResponses ==
    Responses(AllBodies)
    \cup {[kind |-> "http", status |-> st, body |-> b] : st \in Statuses, b \in AllBodies}

\* one call of fetch_json, from the GET to the return
FetchJsonCall ==
    /\ \E resp \in FetchResponses :
         fetched' = [resp |-> resp, out |-> fetch_json(resp)]
    /\ UNCHANGED <<price_vars, chat_vars, handler_vars, call_vars, message_vars>>

SpecFetch == Init /\ [][FetchJsonCall]_vars

-----------------------------------------------------------------------------
(* chat_with_deepseek and cmd_clear.                                        *)

\* the retention cap of lines 298-299
HistoryCap == 20

\* message contents are numbered per user: the n-th message of a user, and
\* the model's reply to it
SystemEntry == [role |-> "system", content |-> 0]
UserEntry(n) == [role |-> "user", content |-> n]
AssistantEntry(n) == [role |-> "assistant", content |-> n]

\* the four strings chat_with_deepseek can return, by the line returning them
ReplyKinds == {"msg", "unavailable", "timeout", "connect_failed"}

\* h[-n:]
LastN(h, n) == IF Len(h) <= n THEN h ELSE SubSeq(h, Len(h) - n + 1, Len(h))

\* the trim left out before the payload is built
Trim_Late(h) == h

\* lines 298-299
Trim(h) == IF Len(h) > HistoryCap THEN LastN(h, HistoryCap) ELSE h

\* the stored history sent as it is
Messages_HistoryOnly(h) == h

\* line 303: the system prompt, then a copy of the stored history
Messages(h) == <<SystemEntry>> \o h

HistoryOf(u) == IF u \in DOMAIN user_conversations THEN user_conversations[u] ELSE <<>>

\* one list object shared by every key of the map
SetHistory_Shared(u, h) ==
    [v \in DOMAIN user_conversations \cup {u} |-> h]

SetHistory(u, h) ==
    [v \in DOMAIN user_conversations \cup {u} |-> IF v = u THEN h ELSE user_conversations[v]]

\* what the POST to the model can end in
ModelOutcomes == {"ok", "bad_body", "non200", "timeout", "exception"}

\* lines 288-314 up to the await of the POST: lazy creation, the User
\* append, the trim, the payload
ChatSend(u) ==
    /\ chat_pc[u] = "idle"
    /\ msg_no[u] < MaxExchanges
    /\ LET n == msg_no[u] + 1
           h == Trim(Append(HistoryOf(u), UserEntry(n)))
           log == Append(appended[u], UserEntry(n))
       IN /\ user_conversations' = SetHistory(u, h)
          /\ msg_no' = [msg_no EXCEPT ![u] = n]
          /\ appended' = [appended EXCEPT ![u] = log]
          /\ sent' = [user |-> u, messages |-> Messages(h), log |-> log]
    /\ chat_pc' = [chat_pc EXCEPT ![u] = "await"]
    /\ UNCHANGED <<chat_ret, failures, chat_outcome, price_vars, fetch_vars, handler_vars, call_vars, message_vars>>

\* lines 315-327: the POST settles
ChatReply(u) ==
    /\ chat_pc[u] = "await"
    /\ \E o \in ModelOutcomes :
         /\ o # "ok" => failures < MaxFailures
         /\ failures' = IF o = "ok" THEN failures ELSE failures + 1
         /\ chat_outcome' = [chat_outcome EXCEPT ![u] = o]
         /\ CASE o = "ok" /\ u \in DOMAIN user_conversations ->
                   /\ user_conversations' =
                          SetHistory(u, Append(user_conversations[u], AssistantEntry(msg_no[u])))
                   /\ appended' = [appended EXCEPT
                                      ![u] = Append(@, AssistantEntry(msg_no[u]))]
                   /\ chat_ret' = [chat_ret EXCEPT ![u] = "msg"]
              [] o = "ok" /\ u \notin DOMAIN user_conversations ->
                   \* user_conversations[user_id]: KeyError, caught at line 325
                   /\ chat_ret' = [chat_ret EXCEPT ![u] = "connect_failed"]
                   /\ UNCHANGED <<user_conversations, appended>>
              [] o = "bad_body" ->
                   \* resp.json() or result["choices"][0]... raises, caught at line 325
                   /\ chat_ret' = [chat_ret EXCEPT ![u] = "connect_failed"]
                   /\ UNCHANGED <<user_conversations, appended>>
              [] o = "non200" ->
                   /\ chat_ret' = [chat_ret EXCEPT ![u] = "unavailable"]
                   /\ UNCHANGED <<user_conversations, appended>>
              [] o = "timeout" ->
                   /\ chat_ret' = [chat_ret EXCEPT ![u] = "timeout"]
                   /\ UNCHANGED <<user_conversations, appended>>
              [] o = "exception" ->
                   /\ chat_ret' = [chat_ret EXCEPT ![u] = "connect_failed"]
                   /\ UNCHANGED <<user_conversations, appended>>
    /\ chat_pc' = [chat_pc EXCEPT ![u] = "idle"]
    /\ UNCHANGED <<msg_no, sent, price_vars, fetch_vars, handler_vars, call_vars, message_vars>>

\* the handler answers the user and leaves the map alone
cmd_clear_AnswerOnly(u) ==
    /\ appended' = [appended EXCEPT ![u] = <<>>]
    /\ UNCHANGED <<user_conversations, chat_pc, msg_no, sent, chat_ret, failures,
                   chat_outcome, price_vars, fetch_vars, handler_vars, call_vars,
                   message_vars>>

\* user_conversations.pop(user_id, None)
cmd_clear(u) ==
    /\ user_conversations' =
           [v \in DOMAIN user_conversations \ {u} |-> user_conversations[v]]
    /\ appended' = [appended EXCEPT ![u] = <<>>]
    /\ UNCHANGED <<chat_pc, msg_no, sent, chat_ret, failures, chat_outcome, price_vars, fetch_vars, handler_vars, call_vars, message_vars>>

\* SpecChat follows the exchanges of one user in depth, up to the trim
ChatUsers == {1}

NextChat ==
    \/ \E u \in ChatUsers : ChatSend(u)
    \/ \E u \in ChatUsers : ChatReply(u)
    \/ \E u \in ChatUsers : cmd_clear(u)

SpecChat == Init /\ [][NextChat]_vars

-----------------------------------------------------------------------------
(* Two users and a get_price invocation, interleaved. The behaviours start  *)
(* where SpecChat arrives after the first user's first ten exchanges have   *)
(* all succeeded: the history is at the cap and the next User append trims. *)

\* the stored history after n exchanges that all succeeded
RECURSIVE HistoryAfter(_)
HistoryAfter(n) ==
    IF n = 0 THEN <<>>
    ELSE Append(Trim(Append(HistoryAfter(n - 1), UserEntry(n))), AssistantEntry(n))

\* every entry appended by those n exchanges
RECURSIVE AppendedAfter(_)
AppendedAfter(n) ==
    IF n = 0 THEN <<>>
    ELSE AppendedAfter(n - 1) \o <<UserEntry(n), AssistantEntry(n)>>

\* the number of exchanges that fill a history up to the cap
Earlier == HistoryCap \div 2

InitFilled ==
    /\ pc = "idle"
    /\ ids = <<>>
    /\ binance_results = NoResults
    /\ need_okx = <<>>
    /\ okx_results = NoResults
    /\ need_cg = <<>>
    /\ cg_data = PyNone
    /\ result = EmptyResult
    /\ ret = NotReturned
    /\ started = <<>>
    /\ user_conversations = [u \in {1} |-> HistoryAfter(Earlier)]
    /\ chat_pc = [u \in Users |-> "idle"]
    /\ msg_no = [u \in Users |-> IF u = 1 THEN Earlier ELSE 0]
    /\ sent = [user |-> 1,
               messages |-> Messages(Trim(Append(HistoryAfter(Earlier - 1),
                                                 UserEntry(Earlier)))),
               log |-> Append(AppendedAfter(Earlier - 1), UserEntry(Earlier))]
    /\ chat_ret = [u \in Users |-> IF u = 1 THEN "msg" ELSE "none"]
    /\ appended = [u \in Users |-> IF u = 1 THEN AppendedAfter(Earlier) ELSE <<>>]
    /\ failures = 0
    /\ chat_outcome = [u \in Users |-> IF u = 1 THEN "ok" ELSE "none"]
    /\ fetched = NoFetch
    /\ handler = [name |-> "none", at |-> "idle"]
    /\ requested = <<>>
    /\ outbox = <<>>
    /\ calls = NoCalls
    /\ hm = NoMessage

\* each user starts one exchange
FirstSend(u) == ChatSend(u) /\ msg_no[u] = (IF u = 1 THEN Earlier ELSE 0)

\* get_price for one identifier
SinglePriceCall ==
    /\ \E c \in Coins : get_price(<<c>>)
    /\ UNCHANGED handler_vars

NextIsolation ==
    \/ \E u \in Users : FirstSend(u)
    \/ \E u \in Users : ChatReply(u)
    \/ \E u \in Users : cmd_clear(u)
    \/ SinglePriceCall
    \/ BinanceSettle
    \/ BinanceCollect
    \/ OkxSettle
    \/ OkxCollect
    \/ CoingeckoSettle

SpecIsolation == InitFilled /\ [][NextIsolation]_vars

-----------------------------------------------------------------------------
(* Two chat_with_deepseek calls of the first user, interleaved at the await *)
(* of the POST: two messages of one user handled at once.                   *)

SameUser == 1

\* line 319: user_conversations[user_id] is looked up when the reply is in;
\* here the list the call saw when it built its payload is used instead
ListAtAppend_Snapshot(current, snapshot) == snapshot

\* line 319: user_conversations[user_id] is looked up when the reply is in
ListAtAppend(current, snapshot) == current

\* lines 288-314 of call c, up to the await of the POST
CallSend(c) ==
    /\ calls[c].at = "idle"
    /\ msg_no[SameUser] < Earlier + MaxCalls
    /\ LET n == msg_no[SameUser] + 1
           h == Trim(Append(HistoryOf(SameUser), UserEntry(n)))
           log == Append(appended[SameUser], UserEntry(n))
       IN /\ user_conversations' = SetHistory(SameUser, h)
          /\ msg_no' = [msg_no EXCEPT ![SameUser] = n]
          /\ appended' = [appended EXCEPT ![SameUser] = log]
          /\ sent' = [user |-> SameUser, messages |-> Messages(h), log |-> log]
          /\ calls' = [calls EXCEPT ![c] = [at |-> "await", n |-> n,
                                            payload |-> Messages(h), ret |-> "none"]]
    /\ UNCHANGED <<chat_pc, chat_ret, failures, chat_outcome,
                   price_vars, fetch_vars, handler_vars, message_vars>>

\* lines 315-327 of call c: its POST settles
CallReply(c) ==
    /\ calls[c].at = "await"
    /\ \E o \in ModelOutcomes :
         /\ o # "ok" => failures < MaxFailures
         /\ failures' = IF o = "ok" THEN failures ELSE failures + 1
         /\ IF o = "ok"
            THEN LET e == AssistantEntry(calls[c].n)
                     l == ListAtAppend(HistoryOf(SameUser), Tail(calls[c].payload))
                 IN /\ user_conversations' = SetHistory(SameUser, Append(l, e))
                    /\ appended' = [appended EXCEPT ![SameUser] = Append(@, e)]
                    /\ calls' = [calls EXCEPT ![c].at = "idle", ![c].ret = "msg"]
            ELSE /\ calls' = [calls EXCEPT
                                 ![c].at = "idle",
                                 ![c].ret = CASE o = "non200"  -> "unavailable"
                                              [] o = "timeout" -> "timeout"
                                              [] OTHER         -> "connect_failed"]
                 /\ UNCHANGED <<user_conversations, appended>>
    /\ UNCHANGED <<chat_pc, msg_no, sent, chat_ret, chat_outcome,
                   price_vars, fetch_vars, handler_vars, message_vars>>

NextSameUser ==
    \/ \E c \in Slots : CallSend(c)
    \/ \E c \in Slots : CallReply(c)

SpecSameUser == InitFilled /\ [][NextSameUser]_vars

-----------------------------------------------------------------------------
(* handle_message: detection, the three context fetches, the exchange.      *)
(* A text is the set of words in it: the code only asks whether a key       *)
(* occurs in the text. A string built by the code is the sequence of its    *)
(* parts.                                                                   *)

Words == {"BTC", "bitebi", "Eth", "yitaifang", "sol", "xrp", "doge",
          "Price", "price", "market", "fear"}

Texts == SUBSET Words

\* str.lower() on one word
lower(w) == CASE w = "BTC" -> "btc" [] w = "Eth" -> "eth" [] w = "Price" -> "price"
              [] OTHER -> w

\* k in w, for the words and keys above
Contains(w, k) == w = k \/ (w = "yitaifang" /\ k = "yitai")

\* k in text
In(k, text) == \E w \in text : Contains(w, k)

\* COIN_ALIAS in the order of the dict literal: two keys of one coin, a key
\* inside another key, and five coins in all; the Chinese keys are written
\* in pinyin
COIN_ALIAS ==
    << [k |-> "btc",    v |-> "bitcoin"],  [k |-> "bitebi",    v |-> "bitcoin"],
       [k |-> "eth",    v |-> "ethereum"], [k |-> "yitaifang", v |-> "ethereum"],
       [k |-> "yitai",  v |-> "ethereum"], [k |-> "sol",    v |-> "solana"],
       [k |-> "xrp",    v |-> "ripple"],   [k |-> "doge",   v |-> "dogecoin"] >>

PRICE_KW  == {"price"}
MARKET_KW == {"market"}
FEAR_KW   == {"fear"}

\* the [:4] of line 583
DetectCap == 4

\* v for k, v in COIN_ALIAS.items() if k in t
RECURSIVE Matched(_, _)
Matched(alias, t) ==
    IF alias = <<>> THEN <<>>
    ELSE (IF In(Head(alias).k, t) THEN <<Head(alias).v>> ELSE <<>>)
         \o Matched(Tail(alias), t)

\* list(dict.fromkeys(s)): the first occurrence of each value, in order
RECURSIVE FromKeys(_, _)
FromKeys(s, seen) ==
    IF s = <<>> THEN <<>>
    ELSE IF Head(s) \in seen THEN FromKeys(Tail(s), seen)
    ELSE <<Head(s)>> \o FromKeys(Tail(s), seen \cup {Head(s)})

\* s[:n]
FirstN(s, n) == IF Len(s) <= n THEN s ELSE SubSeq(s, 1, n)

\* the slice left out
Slice_All(s) == s

\* [:4]
Slice(s) == FirstN(s, DetectCap)

detect_coins(text) ==
    Slice(FromKeys(Matched(COIN_ALIAS, {lower(w) : w \in text}), {}))

\* any(k in text for k in kws): the text as typed, not lower-cased
AnyKw(kws, text) == \E k \in kws : In(k, text)

WantsPrice(text) == detect_coins(text) # <<>> \/ AnyKw(PRICE_KW, text)

\* coins or ["bitcoin", "ethereum"]
Targets(text) ==
    IF detect_coins(text) # <<>> THEN detect_coins(text) ELSE <<"bitcoin", "ethereum">>

\* the await the handler reaches next, the three `if`s in their order
RECURSIVE StageAfter(_, _)
StageAfter(stage, text) ==
    CASE stage = "start"  -> IF WantsPrice(text) THEN "price"
                             ELSE StageAfter("price", text)
      [] stage = "price"  -> IF AnyKw(MARKET_KW, text) THEN "market"
                             ELSE StageAfter("market", text)
      [] stage = "market" -> IF AnyKw(FEAR_KW, text) THEN "fear" ELSE "chat"
      [] stage = "fear"   -> "chat"

\* the parts of a string: a label, a context block of a category fetched
\* by the n-th handle_message call, a line break, the n-th message, the
\* reply to it
Part(kind, cat, n) == [kind |-> kind, cat |-> cat, of |-> n]
Label == Part("context label", "", 0)
QuestionLabel == Part("question label", "", 0)
Newline == Part("newline", "", 0)
Block(cat, n) == Part("block", cat, n)
Msg(n) == Part("message", "", n)
ReplyText(n) == Part("reply", "", n)

\* "\n".join(ctx_parts)
RECURSIVE Join(_)
Join(parts) ==
    IF parts = <<>> THEN <<>>
    ELSE IF Len(parts) = 1 THEN <<Head(parts)>>
    ELSE <<Head(parts), Newline>> \o Join(Tail(parts))

\* lines 291-295
full_message(context_data, user_message) ==
    IF context_data # <<>>
    THEN <<Label, Newline>> \o context_data \o <<Newline, Newline, QuestionLabel, Newline>>
         \o user_message
    ELSE user_message

\* a list kept from call to call
NewCtxParts_Kept(old) == old

\* line 590: ctx_parts = []
NewCtxParts(old) == <<>>

MessageUser == 1

\* what an awaited fetch of the handler can end in: data that gives a
\* block, no data, or an exception out of the fetch or of the formatting
FetchEnds == {"data", "none", "raised"}

\* handle_message is called with a text: detection, and on to the first await
handle_message(text) ==
    /\ hm.at \in {"idle", "raised"}
    /\ hm.n < MaxMessages
    /\ hm' = [at |-> StageAfter("start", text),
              n |-> hm.n + 1,
              text |-> text,
              targets |-> IF WantsPrice(text) THEN Targets(text) ELSE <<>>,
              ctx_parts |-> NewCtxParts(hm.ctx_parts)]
    /\ UNCHANGED <<price_vars, chat_vars, fetch_vars, handler_vars, call_vars>>

\* the texts of at most one word, and one that asks for all three categories
ShortTexts == {{}} \cup {{w} : w \in Words} \cup {{"BTC", "market", "fear"}}

\* a user's messages, one after the other
ShortMessage == \E text \in ShortTexts : handle_message(text)

\* one message of any text
FirstMessage == hm.n = 0 /\ \E text \in Texts : handle_message(text)

\* what the handler does when the fetch of category cat has ended
AfterFetch(cat, end) ==
    CASE end = "raised" -> [hm EXCEPT !.at = "raised"]
      [] end = "none"   -> [hm EXCEPT !.at = StageAfter(cat, hm.text)]
      [] end = "data"   -> [hm EXCEPT !.at = StageAfter(cat, hm.text),
                                      !.ctx_parts = Append(@, Block(cat, hm.n))]

\* lines 597-599: get_price(",".join(targets)) returned a set or None, or raised
PriceReturn ==
    /\ hm.at = "price"
    /\ \E end \in FetchEnds : hm' = AfterFetch("price", end)
    /\ UNCHANGED <<price_vars, chat_vars, fetch_vars, handler_vars, call_vars>>

\* lines 603-608
MarketReturn ==
    /\ hm.at = "market"
    /\ \E end \in FetchEnds : hm' = AfterFetch("market", end)
    /\ UNCHANGED <<price_vars, chat_vars, fetch_vars, handler_vars, call_vars>>

\* lines 612-615
FearReturn ==
    /\ hm.at = "fear"
    /\ \E end \in FetchEnds : hm' = AfterFetch("fear", end)
    /\ UNCHANGED <<price_vars, chat_vars, fetch_vars, handler_vars, call_vars>>

\* line 617, and chat_with_deepseek up to the await of the POST
MessageSend ==
    /\ hm.at = "chat"
    /\ LET e == [role |-> "user",
                 content |-> full_message(Join(hm.ctx_parts), <<Msg(hm.n)>>)]
           h == Trim(Append(HistoryOf(MessageUser), e))
           log == Append(appended[MessageUser], e)
       IN /\ user_conversations' = SetHistory(MessageUser, h)
          /\ msg_no' = [msg_no EXCEPT ![MessageUser] = @ + 1]
          /\ appended' = [appended EXCEPT ![MessageUser] = log]
          /\ sent' = [user |-> MessageUser, messages |-> Messages(h), log |-> log]
    /\ hm' = [hm EXCEPT !.at = "await"]
    /\ UNCHANGED <<chat_pc, chat_ret, failures, chat_outcome,
                   price_vars, fetch_vars, handler_vars, call_vars>>

\* lines 315-327 and line 618: the POST settles, the reply goes to the user
MessageReply ==
    /\ hm.at = "await"
    /\ \E o \in ModelOutcomes :
         /\ o # "ok" => failures < MaxFailures
         /\ failures' = IF o = "ok" THEN failures ELSE failures + 1
         /\ IF o = "ok"
            THEN LET e == [role |-> "assistant", content |-> <<ReplyText(hm.n)>>]
                 IN /\ user_conversations' =
                           SetHistory(MessageUser, Append(HistoryOf(MessageUser), e))
                    /\ appended' = [appended EXCEPT ![MessageUser] = Append(@, e)]
            ELSE UNCHANGED <<user_conversations, appended>>
    /\ hm' = [hm EXCEPT !.at = "idle", !.text = {}, !.targets = <<>>]
    /\ UNCHANGED <<chat_pc, msg_no, sent, chat_ret, chat_outcome,
                   price_vars, fetch_vars, handler_vars, call_vars>>

NextMessage ==
    \/ ShortMessage
    \/ PriceReturn
    \/ MarketReturn
    \/ FearReturn
    \/ MessageSend
    \/ MessageReply

SpecMessage == Init /\ [][NextMessage]_vars

NextDetect ==
    \/ FirstMessage
    \/ PriceReturn
    \/ MarketReturn
    \/ FearReturn
    \/ MessageSend
    \/ MessageReply

SpecDetect == Init /\ [][NextDetect]_vars

-----------------------------------------------------------------------------
(* Properties of get_price, checked under SpecPrice.                        *)

Returned == pc = "done" /\ ret.kind = "dict"

Occurrences(s, x) == Cardinality({i \in DOMAIN s : s[i] = x})

Occurs(s, x) == \E i \in DOMAIN s : s[i] = x

\* C1: tier precedence. Whenever get_price returns a set, every requested
\* identifier for which a Binance call gave a quote with a positive price is
\* in the set with the Binance quote (source = Binance).
C1_TierPrecedence ==
    Returned =>
        \A i \in DOMAIN ids :
            (Resolves(binance_results[i]) /\ binance_results[i].usd > 0) =>
                /\ ids[i] \in DOMAIN ret.quotes
                /\ ret.quotes[ids[i]].source = "Binance"

\* C2: fallback completeness. Whenever get_price returns, an identifier sent
\* to CoinGecko that the CoinGecko response contains is in the returned set
\* tagged CoinGecko, and an identifier an OKX call resolved is in the set
\* tagged OKX.
C2_FallbackCompleteness ==
    pc = "done" =>
        /\ \A i \in DOMAIN need_cg :
               CgHas(cg_data, need_cg[i]) =>
                   /\ ret.kind = "dict"
                   /\ need_cg[i] \in DOMAIN ret.quotes
                   /\ ret.quotes[need_cg[i]].source = "CoinGecko"
        /\ \A i \in DOMAIN okx_results :
               Resolves(okx_results[i]) =>
                   /\ ret.kind = "dict"
                   /\ need_okx[i] \in DOMAIN ret.quotes
                   /\ ret.quotes[need_okx[i]].source = "OKX"

\* some tier resolved some requested identifier: a Binance or OKX call gave
\* a quote that counts, or the CoinGecko response contains an identifier
\* it was asked for
SomeResolved ==
    \/ \E i \in DOMAIN binance_results : Resolves(binance_results[i])
    \/ \E i \in DOMAIN okx_results : Resolves(okx_results[i])
    \/ \E i \in DOMAIN need_cg : CgHas(cg_data, need_cg[i])

\* C3: total-failure signal. Once get_price is over, it has returned None
\* exactly when no tier resolved any identifier, it has returned a non-empty
\* mapping whenever some identifier was resolved, and it never returns an
\* empty mapping.
C3_TotalFailureSignal ==
    pc \in {"done", "raised"} =>
        /\ (ret.kind = "None") <=> ~SomeResolved
        /\ SomeResolved => (ret.kind = "dict" /\ DOMAIN ret.quotes # {})
        /\ ~(ret.kind = "dict" /\ DOMAIN ret.quotes = {})

\* C4: failure isolation inside a fan-out. Once the Binance fan-out has been
\* collected, for every call A of it that raised (or came back without a
\* quote that counts) and every call B of it that gave one: A's identifier is
\* in the remainder handed to OKX, B's identifier is in the result, and it
\* holds B's Binance quote when B's identifier was requested once. The same
\* for the OKX fan-out and the remainder handed to CoinGecko.
C4_FailureIsolation ==
    /\ pc \notin {"idle", "binance"} =>
           \A i, j \in DOMAIN binance_results :
               (~Resolves(binance_results[i]) /\ Resolves(binance_results[j])) =>
                   /\ Occurs(need_okx, ids[i])
                   /\ ids[j] \in DOMAIN result
                   /\ Occurrences(ids, ids[j]) = 1 => result[ids[j]] = binance_results[j]
    /\ pc \in {"coingecko", "done", "raised"} =>
           \A i, j \in DOMAIN okx_results :
               (~Resolves(okx_results[i]) /\ Resolves(okx_results[j])) =>
                   /\ Occurs(need_cg, need_okx[i])
                   /\ need_okx[j] \in DOMAIN result
                   /\ Occurrences(need_okx, need_okx[j]) = 1 =>
                          result[need_okx[j]] = okx_results[j]

\* get_price over two different identifiers has returned a set in which B is
\* the Binance quote although A's Binance call raised
C4_Witness ==
    /\ Returned
    /\ \E i, j \in DOMAIN ids :
         /\ ids[i] # ids[j]
         /\ binance_results[i] = Raised
         /\ Resolves(binance_results[j])
         /\ ids[j] \in DOMAIN ret.quotes
         /\ ret.quotes[ids[j]].source = "Binance"

\* C5: no exception crosses the orchestrator boundary: get_price never ends
\* by raising to its caller.
C5_NeverRaises == pc # "raised"

\* C6: positive-price invariant. Every entry of every returned set carries a
\* usd price that is present and strictly greater than zero.
C6_PositivePrice ==
    Returned =>
        \A c \in DOMAIN ret.quotes :
            ret.quotes[c].has_usd /\ ret.quotes[c].usd > 0

-----------------------------------------------------------------------------
(* Properties of the conversation manager, checked under SpecChat.          *)

\* C7: history cap. Between exchanges a user's stored history holds at most
\* HistoryCap (20) entries.
C7_HistoryCap ==
    \A u \in DOMAIN user_conversations :
        chat_pc[u] = "idle" => Len(user_conversations[u]) <= HistoryCap

\* C8: payload cap. Every request sent to the model is the system message
\* followed by at most HistoryCap (20) history entries, and these are the
\* most recent entries appended for that user since the last clear, in the
\* order they were appended.
C8_PayloadCap ==
    sent # NothingSent =>
        /\ Head(sent.messages) = SystemEntry
        /\ Len(sent.messages) - 1 <= HistoryCap
        /\ Tail(sent.messages) = LastN(sent.log, HistoryCap)

\* a request was sent after the trim had evicted entries, one of them left
\* by an exchange whose model call failed
C8_Witness ==
    /\ sent # NothingSent
    /\ Len(sent.log) > HistoryCap
    /\ Len(sent.messages) = HistoryCap + 1
    /\ failures > 0

CountRole(h, r) == Cardinality({i \in DOMAIN h : h[i].role = r})

\* C9: after every completed exchange the number of User entries appended
\* equals the number of Assistant entries appended.
C9_PairedAppends ==
    \A u \in Users :
        chat_pc[u] = "idle" =>
            CountRole(appended[u], "user") = CountRole(appended[u], "assistant")

\* C10: role alternation. Every request sent to the model is the system
\* message, then messages of strictly alternating roles that start with a
\* user message and end with the new user message.
C10_RoleAlternation ==
    sent # NothingSent =>
        LET m == sent.messages IN
        /\ m[1].role = "system"
        /\ m[2].role = "user"
        /\ m[Len(m)].role = "user"
        /\ \A i \in 1..(Len(m) - 1) : m[i].role # m[i + 1].role

-----------------------------------------------------------------------------
(* Properties of the error paths.                                           *)

\* C11: model-failure mapping. A completed chat_with_deepseek call returned
\* one of its four strings (it never raises); a timeout of the POST gave the
\* timeout placeholder, a non-200 response the unavailable placeholder, any
\* other exception the connection placeholder, and a 200 response with a
\* well-formed body gave the model's text and none of the placeholders.
C11_FailureMapping ==
    \A u \in Users :
        (chat_pc[u] = "idle" /\ chat_outcome[u] # "none") =>
            /\ chat_ret[u] \in ReplyKinds
            /\ chat_outcome[u] = "timeout"   => chat_ret[u] = "timeout"
            /\ chat_outcome[u] = "non200"    => chat_ret[u] = "unavailable"
            /\ chat_outcome[u] = "exception" => chat_ret[u] = "connect_failed"
            /\ chat_outcome[u] = "ok"        => chat_ret[u] = "msg"

\* C12: fetch_json never raises past its boundary. Whatever the GET ended in,
\* the call returned the parsed body or None; it returned a parsed body only
\* on status 200, and None on 429, on every other status, on a timeout, on a
\* network exception and on a body that does not parse.
C12_FetchJsonTotal ==
    fetched # NoFetch =>
        LET resp == fetched.resp
            out  == fetched.out
        IN /\ out.shape # "unparsable"
           /\ out = PyNone \/ (resp.kind = "http" /\ resp.status = 200 /\ out = resp.body)
           /\ (resp.kind # "http" \/ resp.status # 200) => out = PyNone
           /\ (resp.kind = "http" /\ resp.status = 200 /\ resp.body.shape # "unparsable")
                  => out = resp.body

\* a rate-limited answer that carried a JSON object gave None
C12_Witness ==
    /\ fetched.resp.kind = "http"
    /\ fetched.resp.status = 429
    /\ fetched.resp.body.shape = "dict"
    /\ fetched.out = PyNone

CountText(box, text) == Cardinality({i \in DOMAIN box : box[i].text = text})

\* C13: a total failure surfaces as one message. Once a price handler has
\* returned after its get_price call: if get_price returned None the user
\* was sent exactly one error message and no price message; if it returned
\* a set the user was sent exactly one price message, with one block per
\* piece of the request, and no error message.
C13_OneMessage ==
    (handler.at = "returned" /\ pc = "done") =>
        IF ret.kind = "None"
        THEN /\ CountText(outbox, "error") = 1
             /\ CountText(outbox, "prices") = 0
        ELSE /\ CountText(outbox, "error") = 0
             /\ CountText(outbox, "prices") = 1
             /\ \A i \in DOMAIN outbox :
                    outbox[i].text = "prices" => outbox[i].blocks = Len(requested)

-----------------------------------------------------------------------------
(* Properties of the calls get_price makes, checked under SpecPrice.        *)

CallsOf(tier) == {i \in DOMAIN started : started[i].tier = tier}

\* some request of the fan-out for identifier c gave a quote
ResolvedBy(cids, rs, c) == \E i \in DOMAIN cids : cids[i] = c /\ Resolves(rs[i])

PrimaryUnresolved == {c \in Range(ids) : ~ResolvedBy(ids, binance_results, c)}

BothUnresolved ==
    {c \in PrimaryUnresolved : ~ResolvedBy(need_okx, okx_results, c)}

\* C14: later tiers see only the unresolved remainder. Once the Binance
\* fan-out is collected, the OKX adapter was called exactly for the
\* identifiers Binance did not resolve; once the OKX fan-out is collected,
\* the CoinGecko adapter was called at most once, not at all if Binance and
\* OKX left nothing unresolved, and otherwise once with exactly the
\* identifiers neither resolved; every entry of a returned set names one of
\* the three sources.
C14_UnresolvedRemainder ==
    /\ pc \notin {"idle", "binance"} =>
           {started[i].cids[1] : i \in CallsOf("OKX")} = PrimaryUnresolved
    /\ Cardinality(CallsOf("CoinGecko")) <= 1
    /\ pc \in {"coingecko", "done", "raised"} =>
           /\ BothUnresolved = {} => CallsOf("CoinGecko") = {}
           /\ \A i \in CallsOf("CoinGecko") : Range(started[i].cids) = BothUnresolved
           /\ BothUnresolved # {} => CallsOf("CoinGecko") # {}
    /\ Returned =>
           \A c \in DOMAIN ret.quotes :
               ret.quotes[c].source \in {"Binance", "OKX", "CoinGecko"}

\* the number of GETs a source was sent for identifier c alone
GetsFor(tier, c) ==
    Cardinality({i \in CallsOf(tier) : started[i].get /\ started[i].cids = <<c>>})

\* C15: no automatic retry. Within one get_price invocation, for every
\* identifier of the request, Binance and OKX were each sent at most one GET
\* for that identifier, and CoinGecko was sent at most one GET in all.
C15_NoRetry ==
    /\ \A c \in Range(ids) : GetsFor("Binance", c) <= 1 /\ GetsFor("OKX", c) <= 1
    /\ Cardinality({i \in CallsOf("CoinGecko") : started[i].get}) <= 1

NonePending(rs) == \A i \in DOMAIN rs : rs[i].kind # "pending"

\* C16: strict ordering between tiers. In every state in which an OKX call
\* has been started, every Binance request of the invocation has settled;
\* in every state in which the CoinGecko call has been started, every
\* Binance and every OKX request has settled.
C16_TierOrdering ==
    /\ CallsOf("OKX") # {} => NonePending(binance_results)
    /\ CallsOf("CoinGecko") # {} =>
           NonePending(binance_results) /\ NonePending(okx_results)

\* two identifiers went through both fan-outs and on to CoinGecko
C16_Witness ==
    /\ Cardinality(CallsOf("Binance")) = 2
    /\ Cardinality(CallsOf("OKX")) = 2
    /\ CallsOf("CoinGecko") # {}

-----------------------------------------------------------------------------
(* Termination, checked under SpecPriceLive.                                *)

\* C17: termination. Every get_price invocation that was started eventually
\* returns to its caller, a set or None.
C17_Termination == (pc = "binance") ~> (pc = "done")

-----------------------------------------------------------------------------
(* Properties of the stored histories, checked under SpecChat.              *)

\* C18: the system instruction is never stored. Every entry of every stored
\* history has role user or assistant, and every request sent to the model
\* has the system message as its first message and nowhere else.
C18_SystemNotStored ==
    /\ \A u \in DOMAIN user_conversations :
           \A i \in DOMAIN user_conversations[u] :
               user_conversations[u][i].role \in {"user", "assistant"}
    /\ sent # NothingSent =>
           /\ sent.messages[1] = SystemEntry
           /\ CountRole(sent.messages, "system") = 1

\* a request carrying earlier turns was sent and its reply was stored
C18_Witness ==
    /\ sent # NothingSent
    /\ Len(sent.messages) >= 4
    /\ \E u \in DOMAIN user_conversations :
           /\ CountRole(user_conversations[u], "assistant") >= 2
           /\ chat_pc[u] = "idle"

-----------------------------------------------------------------------------
(* Isolation, checked under SpecIsolation.                                  *)

\* a step of an exchange or of a clear for user u
StepFor(u) == ChatSend(u) \/ ChatReply(u) \/ cmd_clear(u)

\* a step of the get_price invocation
PriceStep ==
    \/ SinglePriceCall
    \/ BinanceSettle
    \/ BinanceCollect
    \/ OkxSettle
    \/ OkxCollect
    \/ CoingeckoSettle

SameHistory(v) ==
    /\ (v \in DOMAIN user_conversations') = (v \in DOMAIN user_conversations)
    /\ v \in DOMAIN user_conversations => user_conversations'[v] = user_conversations[v]

-----------------------------------------------------------------------------
(* Interleaved exchanges of one user, checked under SpecSameUser.           *)

IsSuffix(h, log) ==
    /\ Len(h) <= Len(log)
    /\ h = SubSeq(log, Len(log) - Len(h) + 1, Len(log))

\* C20: interleaved exchanges of one user do not corrupt the history. Once
\* both calls have completed, the stored history is the appended entries in
\* the order they were appended, less a prefix (what the oldest-first trim
\* evicted): every appended entry is there exactly once or was evicted, and
\* each call's User entry comes before its Assistant entry.
C20_NoLostAppend ==
    (\A c \in Slots : calls[c].at = "idle") =>
        LET h   == HistoryOf(SameUser)
            log == appended[SameUser]
        IN /\ IsSuffix(h, log)
           /\ \A i, j \in DOMAIN log : log[i] = log[j] => i = j
           /\ \A i, j \in DOMAIN h :
                  (h[i].role = "assistant" /\ h[j].role = "user"
                   /\ h[i].content = h[j].content) => j < i

\* both calls were in flight at once, the trim ran, and the replies were
\* stored in the opposite order of the messages
C20_Witness ==
    /\ \A c \in Slots : calls[c].at = "idle" /\ calls[c].ret = "msg"
    /\ Len(appended[SameUser]) > HistoryCap
    /\ \E i, j \in DOMAIN user_conversations[SameUser] :
           /\ i < j
           /\ user_conversations[SameUser][i] = AssistantEntry(Earlier + 2)
           /\ user_conversations[SameUser][j] = AssistantEntry(Earlier + 1)

-----------------------------------------------------------------------------
(* Properties of handle_message, checked under SpecMessage and SpecDetect.  *)

IsBlock(p) == p.kind = "block"

IsMessage(p) == p.kind = "message"

PartsOf(content, kind) == {i \in DOMAIN content : content[i].kind = kind}

\* C21: context injection is confined to one User entry. When an exchange
\* has appended its User entry: with context, the entry is the context label,
\* then exactly the blocks fetched by this handle_message call, then the
\* question label and the user's message; without context it is the message
\* alone; the exchange appended exactly one entry holding its message, no
\* User entry is without a message (no turn of context only), and no block
\* of the new entry was fetched for an earlier message.
C21_ContextConfined ==
    hm.at = "await" =>
        LET h == HistoryOf(MessageUser)
            e == h[Len(h)]
            c == e.content
        IN /\ e.role = "user"
           /\ c[Len(c)] = Msg(hm.n)
           /\ SelectSeq(c, IsBlock) = hm.ctx_parts
           /\ hm.ctx_parts = <<>> => c = <<Msg(hm.n)>>
           /\ hm.ctx_parts # <<>> =>
                  /\ c[1] = Label
                  /\ \A i \in PartsOf(c, "block") : \A j \in PartsOf(c, "question label") :
                         1 < i /\ i < j /\ j < Len(c)
                  /\ Cardinality(PartsOf(c, "question label")) = 1
           /\ \A i \in PartsOf(c, "block") : c[i].of = hm.n
           /\ Cardinality({i \in DOMAIN appended[MessageUser] :
                   \E j \in DOMAIN appended[MessageUser][i].content :
                       appended[MessageUser][i].content[j] = Msg(hm.n)}) = 1
           /\ \A i \in DOMAIN h :
                  h[i].role = "user" => Cardinality(PartsOf(h[i].content, "message")) = 1

\* the second message went out with three blocks, after a first message
\* that went out with a block of its own
C21_Witness ==
    /\ hm.at = "await"
    /\ hm.n = 2
    /\ Len(hm.ctx_parts) = 3
    /\ \E i \in DOMAIN user_conversations[MessageUser][1].content :
           user_conversations[MessageUser][1].content[i] = Block("price", 1)

-----------------------------------------------------------------------------
(* The lifecycle of a history, checked under SpecChat.                      *)

\* C22: history lifecycle. A user for whom nothing was appended since the
\* start or since that user's last clear has no history at all (it is
\* created on the first exchange, and a clear removes it whole); and the
\* first request after the start or after a clear holds the system
\* instruction and the new user message only, the stored history being
\* that one message.
C22_Lifecycle ==
    \A u \in Users :
        /\ appended[u] = <<>> => u \notin DOMAIN user_conversations
        /\ (chat_pc[u] = "await" /\ sent.user = u /\ Len(appended[u]) = 1) =>
               /\ sent.messages = <<SystemEntry, UserEntry(msg_no[u])>>
               /\ user_conversations[u] = <<UserEntry(msg_no[u])>>

\* a history of several turns was cleared and the next exchange is in flight
C22_Witness ==
    /\ msg_no[1] >= 3
    /\ chat_pc[1] = "await"
    /\ Len(appended[1]) = 1
    /\ Len(sent.log) = 1

\* C23: a clear racing with an exchange in flight. When the model answers
\* 200 with a well-formed reply to a call whose user was cleared while the
\* call was waiting (nothing is left of what the call appended), the call
\* returns the model's text, and whatever history the user has afterwards
\* holds only entries appended since the clear.
C23_ClearInFlight ==
    [][\A u \in Users :
          (/\ chat_pc[u] = "await"
           /\ appended[u] = <<>>
           /\ chat_pc'[u] = "idle"
           /\ chat_outcome'[u] = "ok") =>
              /\ chat_ret'[u] = "msg"
              /\ u \in DOMAIN user_conversations' =>
                     \A i \in 1..Len(user_conversations'[u]) :
                         \E j \in 1..Len(appended'[u]) :
                             user_conversations'[u][i] = appended'[u][j]]_vars

-----------------------------------------------------------------------------
(* The fan-out of handle_message, checked under SpecDetect.                 *)

Categories == {"price", "market", "fear"}

\* the condition of the `if` that guards a category's fetch
Triggered(cat, text) ==
    CASE cat = "price"  -> detect_coins(text) # <<>> \/ AnyKw(PRICE_KW, text)
      [] cat = "market" -> AnyKw(MARKET_KW, text)
      [] cat = "fear"   -> AnyKw(FEAR_KW, text)

BlocksOf(cat) == {i \in DOMAIN hm.ctx_parts : hm.ctx_parts[i].cat = cat}

\* C24: bounded detection fan-out. While handle_message works on a message:
\* detect_coins of its text has no duplicates and at most 4 identifiers, each
\* the target of an alias occurring in the lower-cased text; the identifiers
\* requested from get_price are those, or the two defaults when none was
\* detected and a price keyword is present, so at most 4; and each of the
\* three categories has at most one context block, present only when that
\* category's own condition holds for the text.
C24_BoundedFanOut ==
    hm.at \in {"price", "market", "fear", "chat", "await"} =>
        LET d == detect_coins(hm.text)
            t == {lower(w) : w \in hm.text}
        IN /\ Len(d) <= DetectCap
           /\ \A i, j \in DOMAIN d : i # j => d[i] # d[j]
           /\ \A i \in DOMAIN d : \E a \in DOMAIN COIN_ALIAS :
                  COIN_ALIAS[a].v = d[i] /\ In(COIN_ALIAS[a].k, t)
           /\ Len(hm.targets) <= DetectCap
           /\ hm.at = "price" => hm.targets # <<>>
           /\ hm.targets # <<>> =>
                  \/ hm.targets = d
                  \/ /\ d = <<>>
                     /\ AnyKw(PRICE_KW, hm.text)
                     /\ hm.targets = <<"bitcoin", "ethereum">>
           /\ \A cat \in Categories :
                  /\ Cardinality(BlocksOf(cat)) <= 1
                  /\ BlocksOf(cat) # {} => Triggered(cat, hm.text)

\* a message naming five assets, with all three blocks fetched
C24_Witness ==
    /\ hm.at = "await"
    /\ Len(FromKeys(Matched(COIN_ALIAS, {lower(w) : w \in hm.text}), {})) > DetectCap
    /\ Len(hm.targets) = DetectCap
    /\ \A cat \in Categories : BlocksOf(cat) # {}

=============================================================================
